---------------------------- MODULE Spec2Model ----------------------------
(***************************************************************************)
(* Orientation-to-pointer tracking engine of the Quaternion repository.    *)
(*                                                                         *)
(* Python floats are modelled in fixed point:                              *)
(*   - a quaternion component c is the integer c * QScale,                 *)
(*   - an angle a (radians) is the integer a * AngScale,                   *)
(*   - a delta-tracker coordinate p (pixels) is the integer p * PosUnit,   *)
(*   - a converter coordinate p (pixels) is the integer p * PixScale.      *)
(* sqrt, atan2 and asin are computed (integer Newton iteration, CORDIC),   *)
(* never assumed.                                                          *)
(***************************************************************************)
EXTENDS Integers, Sequences, FiniteSets, TLC

(***************************************************************************)
(* Fixed-point scales.                                                     *)
(***************************************************************************)
QScale   == 10^4                 \* quaternion units per 1.0
AngScale == 10^4                 \* angle units per radian
FineScale == 10^3                \* CORDIC works in AngScale * FineScale per radian
PixScale == 50                   \* converter units per pixel

None == << >>                    \* Python's None (no tuple has length 0)

(***************************************************************************)
(* Arithmetic helpers.                                                     *)
(***************************************************************************)
\* The element of a singleton set.  The({ F(x) : x \in {e} }) computes e
\* once and F of its value.
The(S) == CHOOSE v \in S : TRUE

Abs(a) == IF a < 0 THEN -a ELSE a

Sign(a) == IF a < 0 THEN -1 ELSE 1

Max(a, b) == IF a >= b THEN a ELSE b

Min(a, b) == IF a <= b THEN a ELSE b

\* Division of a float by a float, rounded to the nearest unit (ties away
\* from zero), symmetric in sign.
RoundDivNat(a, b) == (a \div b) + (IF 2 * (a % b) >= b THEN 1 ELSE 0)

RoundDiv(a, b) == Sign(a) * Sign(b) * RoundDivNat(Abs(a), Abs(b))

\* Floor of the square root, by Newton iteration.
RECURSIVE NewtonSqrt(_, _)
NewtonSqrt(n, x) ==
    LET y == (x + n \div x) \div 2
    IN  IF y >= x THEN x ELSE NewtonSqrt(n, y)

ISqrt(n) == IF n <= 0 THEN 0 ELSE NewtonSqrt(n, Min(n, 46340))

\* math.sqrt / np.linalg.norm: the square root rounded to the nearest unit.
Sqrt(n) == The({ IF n - r * r > r THEN r + 1 ELSE r : r \in { ISqrt(n) } })

\* pi and pi/2 in fine angle units (1 / (AngScale * FineScale) rad).
PiFine     == 31415927
HalfPiFine == 15707963

\* atan(2^-i) in fine angle units, i = 0 .. 23.
AtanTable ==
    << 7853982, 4636476, 2449787, 1243550, 624188, 312398, 156237, 78123,
       39062, 19531, 9766, 4883, 2441, 1221, 610, 305, 153, 76, 38, 19,
       10, 5, 2, 1 >>

Pow2(i) == 2^i

\* CORDIC vectoring for x > 0: rotates (x, y) onto the x axis and returns the
\* accumulated angle, in fine units.
RECURSIVE Cordic(_, _, _, _)
Cordic(x, y, z, i) ==
    IF i > Len(AtanTable) \/ y = 0 THEN z
    ELSE LET dx == x \div Pow2(i - 1)
             dy == y \div Pow2(i - 1)
         IN  IF y > 0
             THEN Cordic(x + dy, y - dx, z + AtanTable[i], i + 1)
             ELSE Cordic(x - dy, y + dx, z - AtanTable[i], i + 1)

\* math.atan2(y, x), result in angle units.  The arguments share any scale;
\* they are first brought to about 10^8 so that the shifts keep precision.
CordicScaled(ys, xs) ==
    IF xs = 0
    THEN (IF ys > 0 THEN HalfPiFine ELSE IF ys < 0 THEN -HalfPiFine ELSE 0)
    ELSE Cordic(xs, ys, 0, 1)

Atan2Fine(y, x) ==
    The({ The({ IF x >= 0 THEN a
                ELSE IF y >= 0 THEN PiFine - a ELSE -PiFine - a
                : a \in { CordicScaled((y * sc[1]) \div sc[2],
                                       (Abs(x) * sc[1]) \div sc[2]) } })
          : sc \in { The({ << IF m = 0 THEN 1 ELSE Max(1, (10^8) \div m),
                              IF m > 10^8 THEN (m \div (10^8)) + 1 ELSE 1 >>
                            : m \in { Max(Abs(x), Abs(y)) } }) } })

Atan2(y, x) == The({ RoundDiv(f, FineScale) : f \in { Atan2Fine(y, x) } })

\* math.copysign(math.pi / 2, s), in angle units.
HalfPi == RoundDiv(HalfPiFine, FineScale)

\* A faulty clamp: the sign of the argument is dropped.
CopysignUnsigned(s) == HalfPi

CopysignHalfPi(s) == IF s < 0 THEN -HalfPi ELSE HalfPi

\* math.asin(s / one) for |s| < one, in angle units:
\* asin(t) = atan2(t, sqrt(1 - t^2)), with sqrt(1 - t^2) = sqrt(1-t) * sqrt(1+t).
Asin(s, one) ==
    The({ Atan2(s, c) : c \in { ISqrt(one - Abs(s)) * ISqrt(one + Abs(s)) } })


(***************************************************************************)
(* QuaternionTo2DMotion (src/union_pygame.py): the delta tracker.          *)
(* A quaternion is a 4-tuple <<w, x, y, z>> of QScale units.               *)
(***************************************************************************)

\* Constructor arguments of the tracker under analysis.
ScreenWidth == 1200

ScreenHeight == 800

InitialSensitivity == 300

SmoothingWindow == 2

\* self.deadzone = 0.001 rad, in angle units.
Deadzone == AngScale \div 1000

\* Position units per pixel: a position is kept as an exact multiple of
\* 1 / (AngScale * lcm(1 .. smoothing_window)) pixel, so that a delta
\* (angle * sensitivity) and the mean of up to smoothing_window deltas are
\* exact.
RECURSIVE Gcd(_, _)
Gcd(a, b) == IF b = 0 THEN a ELSE Gcd(b, a % b)

RECURSIVE LcmUpTo(_)
LcmUpTo(n) == IF n <= 1 THEN 1
              ELSE LET l == LcmUpTo(n - 1) IN (l * n) \div Gcd(l, n)

MeanUnit == LcmUpTo(SmoothingWindow)

PosUnit == AngScale * MeanUnit

\* int(v) for a non-negative position v: truncation to whole pixels.
IntPx(v) == v \div PosUnit

Identity == << QScale, 0, 0, 0 >>

\* A faulty normalization: a zero-norm quaternion is returned as it is.
NormalizeByKeepsZero(q, norm) ==
    IF norm = 0 THEN q
    ELSE << RoundDiv(q[1] * QScale, norm), RoundDiv(q[2] * QScale, norm),
            RoundDiv(q[3] * QScale, norm), RoundDiv(q[4] * QScale, norm) >>

NormalizeBy(q, norm) ==
    IF norm = 0 THEN Identity
    ELSE << RoundDiv(q[1] * QScale, norm), RoundDiv(q[2] * QScale, norm),
            RoundDiv(q[3] * QScale, norm), RoundDiv(q[4] * QScale, norm) >>

_normalize_quaternion(q) ==
    The({ NormalizeBy(v, Sqrt(v[1] * v[1] + v[2] * v[2] + v[3] * v[3] + v[4] * v[4]))
          : v \in { q } })

\* A faulty conjugate: the sign of the y component is not flipped.
ConjugateKeepsY(q) == << q[1], -q[2], q[3], -q[4] >>

\* A faulty conjugate: the sign of the z component is not flipped.
ConjugateKeepsZ(q) == << q[1], -q[2], -q[3], q[4] >>

_quaternion_conjugate(q) == << q[1], -q[2], -q[3], -q[4] >>

\* A faulty Hamilton product: the last term of the z component is subtracted.
MultiplySignSlip(q1, q2) ==
    LET w1 == q1[1]  x1 == q1[2]  y1 == q1[3]  z1 == q1[4]
        w2 == q2[1]  x2 == q2[2]  y2 == q2[3]  z2 == q2[4]
    IN  << RoundDiv(w1*w2 - x1*x2 - y1*y2 - z1*z2, QScale),
           RoundDiv(w1*x2 + x1*w2 + y1*z2 - z1*y2, QScale),
           RoundDiv(w1*y2 - x1*z2 + y1*w2 + z1*x2, QScale),
           RoundDiv(w1*z2 + x1*y2 - y1*x2 - z1*w2, QScale) >>

\* Hamilton product; the product of two QScale numbers is brought back to
\* QScale units.
_quaternion_multiply(q1, q2) ==
    LET w1 == q1[1]  x1 == q1[2]  y1 == q1[3]  z1 == q1[4]
        w2 == q2[1]  x2 == q2[2]  y2 == q2[3]  z2 == q2[4]
    IN  << RoundDiv(w1*w2 - x1*x2 - y1*y2 - z1*z2, QScale),
           RoundDiv(w1*x2 + x1*w2 + y1*z2 - z1*y2, QScale),
           RoundDiv(w1*y2 - x1*z2 + y1*w2 + z1*x2, QScale),
           RoundDiv(w1*z2 + x1*y2 - y1*x2 + z1*w2, QScale) >>

\* (roll, pitch, yaw) in angle units.  The atan2 / asin arguments are kept in
\* QScale^2 units (1.0 is QScale^2).
One == QScale * QScale

\* roll = atan2(sinr_cosp, cosr_cosp)
RollOf(w, x, y, z) ==
    The({ Atan2(a[1], a[2])
          : a \in { << 2 * (w * x + y * z), One - 2 * (x * x + y * y) >> } })

\* pitch = copysign(pi / 2, sinp) if abs(sinp) >= 1 else asin(sinp)
PitchOf(w, x, y, z) ==
    The({ IF Abs(sinp) >= One THEN CopysignHalfPi(sinp) ELSE Asin(sinp, One)
          : sinp \in { 2 * (w * y - z * x) } })

\* yaw = atan2(siny_cosp, cosy_cosp)
YawOf(w, x, y, z) ==
    The({ Atan2(a[1], a[2])
          : a \in { << 2 * (w * z + x * y), One - 2 * (y * y + z * z) >> } })

_quaternion_to_euler(q) ==
    The({ << RollOf(v[1], v[2], v[3], v[4]), PitchOf(v[1], v[2], v[3], v[4]),
             YawOf(v[1], v[2], v[3], v[4]) >> : v \in { q } })

_calculate_delta_quaternion(current_q, previous_q) ==
    The({ _normalize_quaternion(delta_q)
          : delta_q \in { _quaternion_multiply(current_q,
                               _quaternion_conjugate(previous_q)) } })

\* delta_q = self._calculate_delta_quaternion(current_q, self.prev_quaternion)
\* delta_roll, delta_pitch, delta_yaw = self._quaternion_to_euler(delta_q)
EulerOfDelta(current_q, previous_q) ==
    The({ _quaternion_to_euler(delta_q)
          : delta_q \in { _calculate_delta_quaternion(current_q, previous_q) } })


(***************************************************************************)
(* The absolute converters: ImprovedQuaternionConverter (src/comparing.py) *)
(* and the two QuaternionToScreen classes (src/Euler.py,                   *)
(* src/clear_vizual.py).  Coordinates are in PixScale units.               *)
(***************************************************************************)
Improved    == "comparing.ImprovedQuaternionConverter"
EulerPy     == "Euler.QuaternionToScreen"
ClearVizual == "clear_vizual.QuaternionToScreen"
Tracker     == "union_pygame.QuaternionTo2DMotion"

MaxTiltDegrees == 45

\* math.radians(max_tilt_degrees), in angle units.
MaxTiltRadians == RoundDiv(MaxTiltDegrees * PiFine, 180 * FineScale)

\* The fields set by __init__ with default arguments; alpha in tenths,
\* dead_zone in pixels.
ImprovedConfig == [ width |-> 100, height |-> 100, alpha |-> 7, dead_zone |-> 10 ]

EulerPyConfig == [ width |-> 800, height |-> 600, alpha |-> 2, dead_zone |-> 1 ]

ClearVizualConfig == [ width |-> 800, height |-> 600, alpha |-> 7, dead_zone |-> 10 ]

ConfigOf(o) ==
    IF o = Improved THEN ImprovedConfig
    ELSE IF o = EulerPy THEN EulerPyConfig
    ELSE ClearVizualConfig

\* screen_center = dimension / 2
CenterPix(dimension) == (dimension * PixScale) \div 2

\* sensitivity = dimension / (2 * max_tilt_radians), PixScale units per radian.
SensitivityOf(dimension) ==
    RoundDiv(dimension * PixScale * AngScale, 2 * MaxTiltRadians)

\* max(-max_tilt_radians, min(max_tilt_radians, angle))
ClampTilt(angle) == Max(-MaxTiltRadians, Min(MaxTiltRadians, angle))

\* max(0, min(dimension, v))
ClampPix(v, dimension) == Max(0, Min(dimension * PixScale, v))

\* A faulty dead zone test: a point at distance exactly dead_zone is inside.
InDeadZoneInclusive(cfg, sx, sy) ==
    The({ d[1] * d[1] + d[2] * d[2]
            <= (cfg.dead_zone * PixScale) * (cfg.dead_zone * PixScale)
          : d \in { << sx - CenterPix(cfg.width), sy - CenterPix(cfg.height) >> } })

\* distance_from_center < self.dead_zone.  For a whole threshold t,
\* sqrt(n) < t exactly when floor(sqrt(n)) < t.
InDeadZone(cfg, sx, sy) ==
    The({ ISqrt(d[1] * d[1] + d[2] * d[2]) < cfg.dead_zone * PixScale
          : d \in { << sx - CenterPix(cfg.width), sy - CenterPix(cfg.height) >> } })

\* A faulty filter: the weights of the new and the previous point are swapped.
SmoothSwapped(cfg, v, prev) == RoundDiv((10 - cfg.alpha) * v + cfg.alpha * prev, 10)

\* alpha * v + (1 - alpha) * prev
Smooth(cfg, v, prev) == RoundDiv(cfg.alpha * v + (10 - cfg.alpha) * prev, 10)

\* A faulty post-processing: the smoothing state is stored after the clamp.
PostProcessStoresClamped(cfg, px, py, sx, sy, use_smoothing) ==
    The({ The({ [ x |-> ClampPix(f[1], cfg.width),
                  y |-> ClampPix(f[2], cfg.height),
                  prev_x |-> IF use_smoothing THEN ClampPix(f[1], cfg.width) ELSE px,
                  prev_y |-> IF use_smoothing THEN ClampPix(f[2], cfg.height) ELSE py,
                  pre_x |-> f[1], pre_y |-> f[2],
                  raw_x |-> sx, raw_y |-> sy ]
                : f \in { IF use_smoothing
                          THEN << Smooth(cfg, dz[1], px), Smooth(cfg, dz[2], py) >>
                          ELSE dz } })
          : dz \in { IF InDeadZone(cfg, sx, sy)
                     THEN << CenterPix(cfg.width), CenterPix(cfg.height) >>
                     ELSE << sx, sy >> } })

\* A faulty post-processing: the point is stored as the smoothing state even
\* when smoothing is disabled.
PostProcessAlwaysStores(cfg, px, py, sx, sy, use_smoothing) ==
    The({ The({ [ x |-> ClampPix(f[1], cfg.width),
                  y |-> ClampPix(f[2], cfg.height),
                  prev_x |-> f[1],
                  prev_y |-> f[2],
                  pre_x |-> f[1], pre_y |-> f[2],
                  raw_x |-> sx, raw_y |-> sy ]
                : f \in { IF use_smoothing
                          THEN << Smooth(cfg, dz[1], px), Smooth(cfg, dz[2], py) >>
                          ELSE dz } })
          : dz \in { IF InDeadZone(cfg, sx, sy)
                     THEN << CenterPix(cfg.width), CenterPix(cfg.height) >>
                     ELSE << sx, sy >> } })

\* Dead zone, then smoothing against (px, py) when use_smoothing, then the
\* clamp.  Returns the point returned, the smoothing state left behind and
\* the point before the clamp.
PostProcess(cfg, px, py, sx, sy, use_smoothing) ==
    The({ The({ [ x |-> ClampPix(f[1], cfg.width),
                  y |-> ClampPix(f[2], cfg.height),
                  prev_x |-> IF use_smoothing THEN f[1] ELSE px,
                  prev_y |-> IF use_smoothing THEN f[2] ELSE py,
                  pre_x |-> f[1], pre_y |-> f[2],
                  raw_x |-> sx, raw_y |-> sy ]
                : f \in { IF use_smoothing
                          THEN << Smooth(cfg, dz[1], px), Smooth(cfg, dz[2], py) >>
                          ELSE dz } })
          : dz \in { IF InDeadZone(cfg, sx, sy)
                     THEN << CenterPix(cfg.width), CenterPix(cfg.height) >>
                     ELSE << sx, sy >> } })

apply_post_processing(px, py, screen_x_in, screen_y_in, use_smoothing) ==
    PostProcess(ImprovedConfig, px, py, screen_x_in, screen_y_in, use_smoothing)

\* A faulty decomposition: yaw and roll change places in the result.
EulerYawFirst(w, x, y, z) ==
    << YawOf(w, x, y, z), PitchOf(w, x, y, z), RollOf(w, x, y, z) >>

quaternion_to_euler(w, x, y, z) ==
    << RollOf(w, x, y, z), PitchOf(w, x, y, z), YawOf(w, x, y, z) >>

\* The raw point of the Euler mapping: roll -> x, pitch -> y (inverted).
EulerPoint(cfg, q) ==
    The({ << CenterPix(cfg.width)
               + RoundDiv(ClampTilt(e[1]) * SensitivityOf(cfg.width), AngScale),
             CenterPix(cfg.height)
               - RoundDiv(ClampTilt(e[2]) * SensitivityOf(cfg.height), AngScale) >>
          : e \in { quaternion_to_euler(q[1], q[2], q[3], q[4]) } })

euler_method(px, py, q, use_smoothing) ==
    The({ apply_post_processing(px, py, p[1], p[2], use_smoothing)
          : p \in { EulerPoint(ImprovedConfig, q) } })

direct_method(px, py, q, use_smoothing) ==
    apply_post_processing(px, py,
        CenterPix(ImprovedConfig.width)
          + RoundDiv(q[2] * SensitivityOf(ImprovedConfig.width) * 2, QScale),
        CenterPix(ImprovedConfig.height)
          + RoundDiv(q[3] * SensitivityOf(ImprovedConfig.height) * 2, QScale),
        use_smoothing)

\* The 3x3 rotation matrix, entries in QScale units.
quaternion_to_rotation_matrix(w, x, y, z) ==
    << << RoundDiv(One - 2*(y*y + z*z), QScale), RoundDiv(2*(x*y - w*z), QScale),
          RoundDiv(2*(x*z + w*y), QScale) >>,
       << RoundDiv(2*(x*y + w*z), QScale), RoundDiv(One - 2*(x*x + z*z), QScale),
          RoundDiv(2*(y*z - w*x), QScale) >>,
       << RoundDiv(2*(x*z - w*y), QScale), RoundDiv(2*(y*z + w*x), QScale),
          RoundDiv(One - 2*(x*x + y*y), QScale) >> >>

\* R @ v
MatVec(R, v) ==
    << R[1][1]*v[1] + R[1][2]*v[2] + R[1][3]*v[3],
       R[2][1]*v[1] + R[2][2]*v[2] + R[2][3]*v[3],
       R[3][1]*v[1] + R[3][2]*v[2] + R[3][3]*v[3] >>

rotation_matrix_method(px, py, q, use_smoothing) ==
    The({ apply_post_processing(px, py,
              CenterPix(ImprovedConfig.width)
                + RoundDiv(rv[1] * SensitivityOf(ImprovedConfig.width), QScale),
              CenterPix(ImprovedConfig.height)
                - RoundDiv(rv[2] * SensitivityOf(ImprovedConfig.height), QScale),
              use_smoothing)
          : rv \in { MatVec(quaternion_to_rotation_matrix(q[1], q[2], q[3], q[4]),
                            << 0, 0, 1 >>) } })

spherical_method(px, py, q, use_smoothing) ==
    The({ apply_post_processing(px, py,
              CenterPix(ImprovedConfig.width)
                + RoundDiv(ClampTilt(a[1]) * SensitivityOf(ImprovedConfig.width), AngScale),
              CenterPix(ImprovedConfig.height)
                - RoundDiv(ClampTilt(a[2]) * SensitivityOf(ImprovedConfig.height), AngScale),
              use_smoothing)
          : a \in { << YawOf(q[1], q[2], q[3], q[4]),
                       PitchOf(q[1], q[2], q[3], q[4]) >> } })

\* A faulty blend: the two weights are swapped.
BlendSwapped(e, sph) == RoundDiv(2 * e + 8 * sph, 10)

\* weight_euler = 0.8, weight_sphere = 0.2
Blend(e, sph) == RoundDiv(8 * e + 2 * sph, 10)

\* The three calls run one after another on the same object: each starts
\* from the smoothing state the call before it left.
hybrid_method(px, py, q, use_smoothing) ==
    The({ The({ apply_post_processing(s.prev_x, s.prev_y, Blend(e.x, s.x),
                                      Blend(e.y, s.y), use_smoothing)
                : s \in { spherical_method(e.prev_x, e.prev_y, q, FALSE) } })
          : e \in { euler_method(px, py, q, FALSE) } })

\* QuaternionToScreen.quaternion_to_screen_coords, the same code in
\* src/Euler.py and src/clear_vizual.py with the constants of cfg.
quaternion_to_screen_coords(cfg, px, py, q, use_smoothing) ==
    The({ PostProcess(cfg, px, py, p[1], p[2], use_smoothing)
          : p \in { EulerPoint(cfg, q) } })

Strategies == { "euler_method", "direct_method", "rotation_matrix_method",
                "spherical_method", "hybrid_method" }

StrategyCall(name, px, py, q, use_smoothing) ==
    CASE name = "euler_method" -> euler_method(px, py, q, use_smoothing)
      [] name = "direct_method" -> direct_method(px, py, q, use_smoothing)
      [] name = "rotation_matrix_method" -> rotation_matrix_method(px, py, q, use_smoothing)
      [] name = "spherical_method" -> spherical_method(px, py, q, use_smoothing)
      [] name = "hybrid_method" -> hybrid_method(px, py, q, use_smoothing)

\* The methods dict of compare_methods: result key and strategy, in
\* insertion order.
Methods ==
    << << "Euler", "euler_method" >>, << "Direct", "direct_method" >>,
       << "Rotation Matrix", "rotation_matrix_method" >>,
       << "Spherical", "spherical_method" >>, << "Hybrid", "hybrid_method" >> >>

\* The loop of compare_methods from the i-th method on: each call starts from
\* the smoothing state the call before it left.
RECURSIVE CompareRuns(_, _, _, _, _)
CompareRuns(i, px, py, q, use_smoothing) ==
    IF i > Len(Methods) THEN << >>
    ELSE The({ << r >> \o CompareRuns(i + 1, r.prev_x, r.prev_y, q, use_smoothing)
               : r \in { StrategyCall(Methods[i][2], px, py, q, use_smoothing) } })

\* results[name] = (x_coord, y_coord) for every method, and the smoothing
\* state after the last call.
CompareWith(px, py, q, use_smoothing) ==
    The({ [ results |-> [ k \in { Methods[i][1] : i \in 1..Len(Methods) } |->
                            The({ << runs[i].x, runs[i].y >>
                                  : i \in { j \in 1..Len(Methods) : Methods[j][1] = k } }) ],
            prev_x |-> IF runs = << >> THEN px ELSE runs[Len(runs)].prev_x,
            prev_y |-> IF runs = << >> THEN py ELSE runs[Len(runs)].prev_y ]
          : runs \in { CompareRuns(1, px, py, q, use_smoothing) } })

\* A faulty compare_methods: the methods run with their default
\* use_smoothing=True.
compare_methods_default_smoothing(px, py, q) == CompareWith(px, py, q, TRUE)

\* x_coord, y_coord = method(w, x, y, z, use_smoothing=False)
compare_methods(px, py, q) == CompareWith(px, py, q, FALSE)

(***************************************************************************)
(* State.                                                                  *)
(***************************************************************************)
VARIABLES
    obj,              \* the class that was constructed
    screen_x,         \* tracker: self.screen_x (position units)
    screen_y,         \* tracker: self.screen_y
    prev_quaternion,  \* tracker: self.prev_quaternion, None or a quaternion
    delta_buffer,     \* tracker: self.delta_buffer, a deque(maxlen)
    sensitivity,      \* tracker: self.sensitivity (pixels per radian)
    prev_x,           \* converter: self.prev_x (PixScale units)
    prev_y,           \* converter: self.prev_y
    ret,              \* the value the last call returned (None: nothing)
    last,             \* what the last call was and the values it computed
    pushed,           \* history: every delta appended since construction / reset
    nops,             \* number of calls made so far
    running,          \* visualizer: self.running
    demo_running,     \* visualizer: self.demo_running
    demo_threads,     \* visualizer: every demo thread started, by its position
    current_quaternion,  \* visualizer: self.current_quaternion
    main_pc           \* visualizer: where the main thread is in run()

vars == << obj, screen_x, screen_y, prev_quaternion, delta_buffer,
           sensitivity, prev_x, prev_y, ret, last, pushed, nops,
           running, demo_running, demo_threads, current_quaternion, main_pc >>

visualizerVars == << running, demo_running, demo_threads, current_quaternion, main_pc >>

\* No MotionVisualizer was constructed: its fields keep these values.
NoVisualizer ==
    /\ running = FALSE
    /\ demo_running = FALSE
    /\ demo_threads = << >>
    /\ current_quaternion = << QScale, 0, 0, 0 >>
    /\ main_pc = "idle"

trackerVars == << screen_x, screen_y, prev_quaternion, delta_buffer, sensitivity >>

\* Longest call sequence explored on the tracker, and on a converter.
MaxOps == 5

MaxCalls == 2

\* Longest run of one repeated sample.
MaxRepeat == 50

\* Samples fed to update_position (raw, not normalized): the all-zero sample,
\* a 90 degree yaw, a 53 degree pitch, a yaw below the deadzone.
Samples ==
    { << 0, 0, 0, 0 >>,
      << QScale, 0, 0, QScale >>,
      << QScale, 0, QScale \div 2, 0 >>,
      << QScale, 0, 0, 3 >> }

\* Samples for runs of one repeated sample: those above, a combined rotation
\* (the test case of src/Euler.py), one with negative components and one far
\* from unit norm.
RepeatSamples ==
    Samples \cup { << 9330, 1830, 1830, 1830 >>,
                   << -5000, 5000, -5000, 5000 >>,
                   << 2 * QScale, -QScale, QScale, QScale \div 2 >> }

\* Samples passed to the converters (which do not normalize): identity,
\* a 30 degree roll, a tilt inside the dead zone, a 90 degree pitch, a -90
\* degree roll, a 17 degree yaw.
ConvSamples ==
    { << QScale, 0, 0, 0 >>,
      << 9660, 2590, 0, 0 >>,
      << QScale, 50, 0, 0 >>,
      << 7071, 0, 7071, 0 >>,
      << 7071, -7071, 0, 0 >>,
      << 9888, 0, 0, 1494 >>,
      << 7071, 0, -7072, 0 >> }

\* Samples passed to get_euler_angles: all zero, a pitch that is not of unit
\* norm, and two pitches of a quarter turn, one of which normalizes to
\* components whose rounding puts sinp just above 1.
EulerSamples ==
    { << 0, 0, 0, 0 >>, << QScale, 0, QScale \div 2, 0 >>,
      << 4992, 0, 5000, 0 >>, << QScale, 0, -QScale, 0 >> }

\* Quaternions passed to quaternion_to_euler of the converters, which does
\* not normalize: sinp = 2, -2, just above 1, just below 1, 0.5 and -0.5.
PitchSamples ==
    { << QScale, 0, QScale, 0 >>, << QScale, 0, -QScale, 0 >>,
      << 7071, 0, 7072, 0 >>, << 7071, 0, 7071, 0 >>,
      << QScale, 0, QScale \div 4, 0 >>, << 0, QScale \div 4, 0, QScale >> }

\* Raw points passed to apply_post_processing directly, as offsets from the
\* screen centre in PixScale units: two points at distance exactly dead_zone
\* (10 px), one just inside it, one off the screen.
RawOffsets ==
    { << 10 * PixScale, 0 >>, << 6 * PixScale, -8 * PixScale >>,
      << 10 * PixScale - 1, 0 >>, << -70 * PixScale, 80 * PixScale >> }

\* The record kept about a call: the operation and its argument, those of the
\* call before it, and the values the call computed on the way.
\*   first        update_position took the no-previous-orientation branch
\*   run          length of the current run of update_position calls with one
\*                sample that started on a tracker without previous orientation
\*   dirty        reset_position: the tracker had moved and buffered a delta;
\*                a call right after reset_position: the same, carried over
\*   dpitch/dyaw  delta angles before the deadzone
\*   raw_x/raw_y  the point handed to the post-processing
\*   pre_x/pre_y  the position before the final clamp
NoCall == [ op |-> "construct", arg |-> None, prev_op |-> "construct",
            prev_arg |-> None, first |-> FALSE, run |-> 0, dirty |-> FALSE,
            smooth |-> FALSE,
            dpitch |-> 0, dyaw |-> 0, raw_x |-> 0, raw_y |-> 0,
            pre_x |-> 0, pre_y |-> 0 ]

Called(name, a) ==
    [ NoCall EXCEPT !.op = name, !.arg = a, !.prev_op = last.op,
                    !.prev_arg = last.arg ]

\* deque(maxlen = n).append(e): the oldest element is dropped when full.
DequeAppend(buf, e, n) ==
    IF n = 0 THEN << >>
    ELSE IF Len(buf) < n THEN Append(buf, e)
    ELSE Append(Tail(buf), e)

RECURSIVE SumOf(_, _)
SumOf(buf, i) == IF buf = << >> THEN 0 ELSE Head(buf)[i] + SumOf(Tail(buf), i)

\* A faulty average: the sum is divided by the window, not by the fill level.
AverageOverWindow(buf, i) ==
    IF Len(buf) > 0 THEN (SumOf(buf, i) * MeanUnit) \div SmoothingWindow ELSE 0

\* sum(d[i] for d in buffer) / len(buffer), in position units; 0 when empty.
AverageDelta(buf, i) ==
    IF Len(buf) > 0 THEN (SumOf(buf, i) * MeanUnit) \div Len(buf) ELSE 0

\* A faulty deadzone: small angles pass through.
NoDeadzone(angle) == angle

\* if abs(angle) < self.deadzone: angle = 0
ApplyDeadzone(angle) == IF Abs(angle) < Deadzone THEN 0 ELSE angle

\* A faulty clamp: the upper bound is not applied.
ClampToScreenLowerOnly(v, dimension) == Max(0, v)

\* A faulty clamp: the upper bound is the dimension itself.
ClampToScreenInclusive(v, dimension) == Max(0, Min(dimension * PosUnit, v))

\* max(0, min(dimension - 1, v))
ClampToScreen(v, dimension) == Max(0, Min((dimension - 1) * PosUnit, v))

\* self.screen_width // 2, in position units.
CenterOf(dimension) == (dimension \div 2) * PosUnit

TrackerInit ==
    /\ obj = Tracker
    /\ screen_x = CenterOf(ScreenWidth)
    /\ screen_y = CenterOf(ScreenHeight)
    /\ prev_quaternion = None
    /\ delta_buffer = << >>
    /\ sensitivity = InitialSensitivity
    /\ prev_x = 0
    /\ prev_y = 0

\* A faulty first-sample branch: a zero delta is buffered for the first sample.
FirstStepPushesZero(current_q) ==
    [ first |-> TRUE,
      buf |-> DequeAppend(delta_buffer, << 0, 0 >>, SmoothingWindow),
      appended |-> << >>,
      new_x |-> screen_x, new_y |-> screen_y, x |-> screen_x, y |-> screen_y,
      dpitch |-> 0, dyaw |-> 0 ]

\* The first-sample branch of update_position: only the reference orientation
\* is recorded.
FirstStep(current_q) ==
    [ first |-> TRUE, buf |-> delta_buffer, appended |-> << >>,
      new_x |-> screen_x, new_y |-> screen_y, x |-> screen_x, y |-> screen_y,
      dpitch |-> 0, dyaw |-> 0 ]

\* delta_x = delta_yaw * self.sensitivity; delta_y = -delta_pitch * self.sensitivity
\* after the deadzone was applied to both angles.
DeltaOf(euler) ==
    << ApplyDeadzone(euler[3]) * sensitivity,
       (-ApplyDeadzone(euler[2])) * sensitivity >>

\* The other branch of update_position: the new delta buffer, position and
\* diagnostics for normalized sample current_q.  Each intermediate value is
\* bound once (x \in {e}) so that it is computed once.
TrackStep(current_q) ==
    The({ The({ The({ [ first |-> FALSE, buf |-> buf,
                        appended |-> << d >>,
                        new_x |-> new_x,
                        new_y |-> new_y,
                        x |-> ClampToScreen(new_x, ScreenWidth),
                        y |-> ClampToScreen(new_y, ScreenHeight),
                        dpitch |-> euler[2],
                        dyaw |-> euler[3] ]
                      : new_x \in { screen_x + AverageDelta(buf, 1) },
                        new_y \in { screen_y + AverageDelta(buf, 2) } })
                : d \in { DeltaOf(euler) },
                  buf \in { DequeAppend(delta_buffer, DeltaOf(euler),
                                        SmoothingWindow) } })
          : euler \in { EulerOfDelta(current_q, prev_quaternion) } })

\* A faulty update: the reference orientation stays where it was when the
\* deadzone zeroed the whole delta.
update_position_keeps_reference(quaternion) ==
    /\ obj = Tracker
    /\ \E current_q \in { _normalize_quaternion(quaternion) } :
       \E r \in { IF prev_quaternion = None THEN FirstStep(current_q)
                  ELSE TrackStep(current_q) } :
         /\ delta_buffer' = r.buf
         /\ screen_x' = r.x
         /\ screen_y' = r.y
         /\ prev_quaternion' = IF ~r.first /\ r.appended = << << 0, 0 >> >>
                              THEN prev_quaternion ELSE current_q
         /\ ret' = << IntPx(r.x), IntPx(r.y) >>
         /\ pushed' = pushed \o r.appended
         /\ last' = [ Called("update_position", quaternion) EXCEPT
                        !.first = r.first,
                        !.dirty = (last.op = "reset_position" /\ last.dirty),
                        !.run = IF r.first THEN 1
                                ELSE IF last.op = "update_position" /\ last.run > 0
                                        /\ last.arg = quaternion
                                     THEN last.run + 1 ELSE 0,
                        !.dpitch = r.dpitch, !.dyaw = r.dyaw,
                        !.pre_x = r.new_x, !.pre_y = r.new_y ]
    /\ nops' = nops + 1
    /\ UNCHANGED << obj, sensitivity, prev_x, prev_y >>

update_position(quaternion) ==
    /\ obj = Tracker
    /\ \E current_q \in { _normalize_quaternion(quaternion) } :
       \E r \in { IF prev_quaternion = None THEN FirstStep(current_q)
                  ELSE TrackStep(current_q) } :
         /\ delta_buffer' = r.buf
         /\ screen_x' = r.x
         /\ screen_y' = r.y
         /\ prev_quaternion' = current_q
         /\ ret' = << IntPx(r.x), IntPx(r.y) >>
         /\ pushed' = pushed \o r.appended
         /\ last' = [ Called("update_position", quaternion) EXCEPT
                        !.first = r.first,
                        !.dirty = (last.op = "reset_position" /\ last.dirty),
                        !.run = IF r.first THEN 1
                                ELSE IF last.op = "update_position" /\ last.run > 0
                                        /\ last.arg = quaternion
                                     THEN last.run + 1 ELSE 0,
                        !.dpitch = r.dpitch, !.dyaw = r.dyaw,
                        !.pre_x = r.new_x, !.pre_y = r.new_y ]
    /\ nops' = nops + 1
    /\ UNCHANGED << obj, sensitivity, prev_x, prev_y >>

\* A faulty reset: the sensitivity goes back to its initial value as well.
reset_restores_sensitivity ==
    /\ obj = Tracker
    /\ screen_x' = CenterOf(ScreenWidth)
    /\ screen_y' = CenterOf(ScreenHeight)
    /\ prev_quaternion' = None
    /\ delta_buffer' = << >>
    /\ sensitivity' = InitialSensitivity
    /\ ret' = None
    /\ pushed' = << >>
    /\ last' = Called("reset_position", None)
    /\ nops' = nops + 1
    /\ UNCHANGED << obj, prev_x, prev_y >>

\* A faulty reset: the delta buffer is not cleared.
reset_keeps_buffer ==
    /\ obj = Tracker
    /\ screen_x' = CenterOf(ScreenWidth)
    /\ screen_y' = CenterOf(ScreenHeight)
    /\ prev_quaternion' = None
    /\ ret' = None
    /\ pushed' = << >>
    /\ last' = Called("reset_position", None)
    /\ nops' = nops + 1
    /\ UNCHANGED << obj, sensitivity, prev_x, prev_y, delta_buffer >>

reset_position ==
    /\ obj = Tracker
    /\ screen_x' = CenterOf(ScreenWidth)
    /\ screen_y' = CenterOf(ScreenHeight)
    /\ prev_quaternion' = None
    /\ delta_buffer' = << >>
    /\ ret' = None
    /\ pushed' = << >>
    /\ last' = [ Called("reset_position", None) EXCEPT
                   !.dirty = \/ /\ pushed # << >>
                                 /\ << screen_x, screen_y >> #
                                    << CenterOf(ScreenWidth), CenterOf(ScreenHeight) >>
                              \/ (last.op = "reset_position" /\ last.dirty) ]
    /\ nops' = nops + 1
    /\ UNCHANGED << obj, sensitivity, prev_x, prev_y >>

\* A faulty set_sensitivity: the buffered deltas are rescaled to the new value.
set_sensitivity_rescaling(s) ==
    /\ obj = Tracker
    /\ sensitivity' = s
    /\ delta_buffer' = [ i \in 1..Len(delta_buffer) |->
                           << (delta_buffer[i][1] \div sensitivity) * s,
                              (delta_buffer[i][2] \div sensitivity) * s >> ]
    /\ ret' = None
    /\ last' = Called("set_sensitivity", << s >>)
    /\ nops' = nops + 1
    /\ UNCHANGED << obj, screen_x, screen_y, prev_quaternion, prev_x, prev_y,
                    pushed >>

set_sensitivity(s) ==
    /\ obj = Tracker
    /\ sensitivity' = s
    /\ ret' = None
    /\ last' = Called("set_sensitivity", << s >>)
    /\ nops' = nops + 1
    /\ UNCHANGED << obj, screen_x, screen_y, prev_quaternion, delta_buffer,
                    prev_x, prev_y, pushed >>

\* q = self._normalize_quaternion(np.array(quaternion))
\* return self._quaternion_to_euler(q)
get_euler_angles(quaternion) ==
    /\ obj = Tracker
    /\ ret' = _quaternion_to_euler(_normalize_quaternion(quaternion))
    /\ last' = [ Called("get_euler_angles", quaternion) EXCEPT
                   !.dirty = (last.op = "reset_position" /\ last.dirty) ]
    /\ nops' = nops + 1
    /\ UNCHANGED << obj, trackerVars, prev_x, prev_y, pushed >>

\* The values the callers pass (K_UP, K_DOWN handlers).
SensitivityInputs == { sensitivity + 50, Max(50, sensitivity - 50) }

\* A converter after __init__: the smoothing state is the screen centre.  The
\* tracker's fields do not exist on it.
ConverterInit ==
    /\ obj \in { Improved, EulerPy, ClearVizual }
    /\ prev_x = CenterPix(ConfigOf(obj).width)
    /\ prev_y = CenterPix(ConfigOf(obj).height)
    /\ screen_x = 0
    /\ screen_y = 0
    /\ prev_quaternion = None
    /\ delta_buffer = << >>
    /\ sensitivity = 0

\* The effect of a converter call with result r on the state.
Returns(name, a, use_smoothing, r) ==
    /\ prev_x' = r.prev_x
    /\ prev_y' = r.prev_y
    /\ ret' = << r.x, r.y >>
    /\ last' = [ Called(name, a) EXCEPT !.smooth = use_smoothing,
                                        !.raw_x = r.raw_x, !.raw_y = r.raw_y,
                                        !.pre_x = r.pre_x, !.pre_y = r.pre_y ]
    /\ nops' = nops + 1
    /\ UNCHANGED << obj, trackerVars, pushed >>

\* One of the five strategies of ImprovedQuaternionConverter.
strategy_call(name, q, use_smoothing) ==
    /\ obj = Improved
    /\ \E r \in { StrategyCall(name, prev_x, prev_y, q, use_smoothing) } :
         Returns(name, q, use_smoothing, r)

\* ImprovedQuaternionConverter.apply_post_processing called on a raw point.
post_processing_call(off, use_smoothing) ==
    /\ obj = Improved
    /\ \E r \in { apply_post_processing(prev_x, prev_y,
                      CenterPix(ImprovedConfig.width) + off[1],
                      CenterPix(ImprovedConfig.height) + off[2], use_smoothing) } :
         Returns("apply_post_processing", off, use_smoothing, r)

\* ImprovedQuaternionConverter.compare_methods.
compare_methods_call(q) ==
    /\ obj = Improved
    /\ \E c \in { compare_methods(prev_x, prev_y, q) } :
         /\ prev_x' = c.prev_x
         /\ prev_y' = c.prev_y
         /\ ret' = c.results
    /\ last' = Called("compare_methods", q)
    /\ nops' = nops + 1
    /\ UNCHANGED << obj, trackerVars, pushed >>

\* quaternion_to_euler of the three converters, called on its own.
quaternion_to_euler_call(q) ==
    /\ obj \in { Improved, EulerPy, ClearVizual }
    /\ ret' = quaternion_to_euler(q[1], q[2], q[3], q[4])
    /\ last' = Called("quaternion_to_euler", q)
    /\ nops' = nops + 1
    /\ UNCHANGED << obj, trackerVars, prev_x, prev_y, pushed >>

\* QuaternionToScreen.quaternion_to_screen_coords of Euler.py / clear_vizual.py.
screen_coords_call(q, use_smoothing) ==
    /\ obj \in { EulerPy, ClearVizual }
    /\ \E r \in { quaternion_to_screen_coords(ConfigOf(obj), prev_x, prev_y, q,
                                               use_smoothing) } :
         Returns("quaternion_to_screen_coords", q, use_smoothing, r)

Init ==
    /\ TrackerInit \/ ConverterInit
    /\ ret = None
    /\ last = NoCall
    /\ pushed = << >>
    /\ nops = 0
    /\ NoVisualizer

Next ==
    \/ /\ nops < MaxOps /\ UNCHANGED visualizerVars
       /\ \E q \in Samples : update_position(q)
    \/ /\ nops < MaxOps /\ UNCHANGED visualizerVars
       /\ reset_position
    \/ /\ nops < MaxOps /\ UNCHANGED visualizerVars
       /\ \E s \in SensitivityInputs : set_sensitivity(s)
    \/ /\ nops < MaxOps /\ UNCHANGED visualizerVars
       /\ \E q \in EulerSamples : get_euler_angles(q)
    \/ /\ nops < MaxCalls /\ UNCHANGED visualizerVars
       /\ \E name \in Strategies, q \in ConvSamples, sm \in BOOLEAN :
            strategy_call(name, q, sm)
    \/ /\ nops < MaxCalls /\ UNCHANGED visualizerVars
       /\ \E off \in RawOffsets, sm \in BOOLEAN : post_processing_call(off, sm)
    \/ /\ nops < MaxCalls /\ UNCHANGED visualizerVars
       /\ \E q \in ConvSamples : compare_methods_call(q)
    \/ /\ nops < MaxCalls /\ UNCHANGED visualizerVars
       /\ \E q \in ConvSamples, sm \in BOOLEAN : screen_coords_call(q, sm)
    \/ /\ nops < MaxCalls /\ UNCHANGED visualizerVars
       /\ \E q \in PitchSamples : quaternion_to_euler_call(q)

Spec == Init /\ [][Next]_vars

\* One sample fed again and again to a tracker that was just constructed or
\* reset, the run being restarted by reset_position.
RepeatInit ==
    /\ TrackerInit
    /\ ret = None
    /\ last = NoCall
    /\ pushed = << >>
    /\ nops = 0
    /\ NoVisualizer

RepeatNext ==
    \/ /\ nops < MaxRepeat /\ UNCHANGED visualizerVars
       /\ \E q \in RepeatSamples :
            /\ prev_quaternion # None => q = last.arg
            /\ update_position(q)
    \/ /\ nops < MaxRepeat /\ UNCHANGED visualizerVars
       /\ last.op = "update_position"
       /\ reset_position

SpecRepeat == RepeatInit /\ [][RepeatNext]_vars

\* A converter whose alpha attribute was set to 1.0 after construction: the
\* constants of its class with alpha = 10 tenths.
AlphaOneConfig(o) == [ ConfigOf(o) EXCEPT !.alpha = 10 ]

\* quaternion_to_screen_coords (euler_method on ImprovedQuaternionConverter)
\* on such a converter.
alpha_one_coords_call(q, use_smoothing) ==
    /\ obj \in { Improved, EulerPy, ClearVizual }
    /\ \E r \in { quaternion_to_screen_coords(AlphaOneConfig(obj), prev_x, prev_y,
                                               q, use_smoothing) } :
         Returns(IF obj = Improved THEN "euler_method"
                 ELSE "quaternion_to_screen_coords", q, use_smoothing, r)

\* The post-processing of such a converter on a raw point.
alpha_one_post_processing_call(off, use_smoothing) ==
    /\ obj \in { Improved, EulerPy, ClearVizual }
    /\ \E r \in { PostProcess(AlphaOneConfig(obj), prev_x, prev_y,
                              CenterPix(ConfigOf(obj).width) + off[1],
                              CenterPix(ConfigOf(obj).height) + off[2],
                              use_smoothing) } :
         Returns("apply_post_processing", off, use_smoothing, r)

AlphaOneInit ==
    /\ ConverterInit
    /\ ret = None
    /\ last = NoCall
    /\ pushed = << >>
    /\ nops = 0
    /\ NoVisualizer

AlphaOneNext ==
    \/ /\ nops < MaxCalls /\ UNCHANGED visualizerVars
       /\ \E q \in ConvSamples, sm \in BOOLEAN : alpha_one_coords_call(q, sm)
    \/ /\ nops < MaxCalls /\ UNCHANGED visualizerVars
       /\ \E off \in RawOffsets, sm \in BOOLEAN :
            alpha_one_post_processing_call(off, sm)

SpecAlphaOne == AlphaOneInit /\ [][AlphaOneNext]_vars

\* Slow drift: a stream that starts level and turns about the z axis in
\* steps of DriftStep / QScale in the z component, about 0.0006 rad of yaw
\* each, below the deadzone of 0.001 rad.
DriftStep == 3

MaxDrift == 17

MaxStream == 24

DriftSample(k) == << QScale, 0, 0, DriftStep * k >>

DriftSamples == { DriftSample(k) : k \in 0 .. MaxDrift }

\* The delta between two consecutive samples has |pitch| and |yaw| below
\* the deadzone.
SubDeadzoneApart(current, previous) ==
    \E euler \in { EulerOfDelta(_normalize_quaternion(current),
                                _normalize_quaternion(previous)) } :
        Abs(euler[2]) < Deadzone /\ Abs(euler[3]) < Deadzone

SpecDriftInit ==
    /\ TrackerInit
    /\ ret = None
    /\ last = NoCall
    /\ pushed = << >>
    /\ nops = 0
    /\ NoVisualizer

\* A stream starts level (on a fresh tracker and after a reset); every later
\* sample is within the deadzone of the sample before it.
SpecDriftNext ==
    \/ /\ nops < MaxStream /\ UNCHANGED visualizerVars
       /\ \E q \in DriftSamples :
            /\ IF last.op = "update_position"
               THEN SubDeadzoneApart(q, last.arg)
               ELSE q = DriftSample(0)
            /\ update_position(q)
    \/ /\ nops < MaxStream /\ UNCHANGED visualizerVars
       /\ last.op = "update_position"
       /\ reset_position

SpecDrift == SpecDriftInit /\ [][SpecDriftNext]_vars

(***************************************************************************)
(* load_quaternions_from_file (src/Euler.py).  A line of the file is kept  *)
(* as what line.strip().split(',') and part.split(':') make of it: a       *)
(* sequence of parts, each a sequence of pieces, each piece its stripped   *)
(* text.  The blank line splits into one part of one empty piece.          *)
(***************************************************************************)

Loader == "Euler.load_quaternions_from_file"

\* float(text): the texts that are numerals, with their values in QScale
\* units; float raises ValueError on any other text.
FloatOf ==
    [ t \in { "1.0", "0.0", "0.5", "-0.5" } |->
        CASE t = "1.0" -> QScale
          [] t = "0.0" -> 0
          [] t = "0.5" -> QScale \div 2
          [] t = "-0.5" -> -(QScale \div 2) ]

BlankLine == << << "" >> >>

\* The lines a log holds: two well-formed samples, a blank line, a line of
\* three pairs, a line of bare numbers, a line with a value that is no
\* numeral, and a line of five pairs.
LineSamples ==
    { << << "w", "1.0" >>, << "x", "0.0" >>, << "y", "0.0" >>, << "z", "0.0" >> >>,
      << << "w", "0.5" >>, << "x", "0.5" >>, << "y", "-0.5" >>, << "z", "0.5" >> >>,
      BlankLine,
      << << "w", "1.0" >>, << "x", "0.0" >>, << "y", "0.0" >> >>,
      << << "1.0" >>, << "0.0" >>, << "0.0" >>, << "0.0" >> >>,
      << << "w", "abc" >>, << "x", "0.0" >>, << "y", "0.0" >>, << "z", "0.0" >> >>,
      << << "w", "0.5" >>, << "x", "-0.5" >>, << "y", "0.5" >>, << "z", "0.5" >>,
         << "t", "1.0" >> >> }

MaxLines == 3

Files == UNION { [ 1 .. n -> LineSamples ] : n \in 0 .. MaxLines }

\* float(parts[i].split(':')[1].strip()): the value, or the exception raised.
ParseField(parts, i) ==
    IF Len(parts) < i THEN [ raised |-> "IndexError", value |-> 0 ]
    ELSE IF Len(parts[i]) < 2 THEN [ raised |-> "IndexError", value |-> 0 ]
    ELSE IF parts[i][2] \notin DOMAIN FloatOf
         THEN [ raised |-> "ValueError", value |-> 0 ]
    ELSE [ raised |-> "", value |-> FloatOf[parts[i][2]] ]

\* The body of the try block: the sample appended, or the first exception.
ParseLine(parts) ==
    The({ IF \E i \in 1 .. 4 : f[i].raised # ""
          THEN [ raised |-> f[CHOOSE i \in 1 .. 4 :
                               /\ f[i].raised # ""
                               /\ \A j \in 1 .. i - 1 : f[j].raised = ""].raised,
                 sample |-> << >> ]
          ELSE [ raised |-> "",
                 sample |-> << f[1].value, f[2].value, f[3].value, f[4].value >> ]
          : f \in { [ i \in 1 .. 4 |-> ParseField(parts, i) ] } })

\* The loop over the lines, from line i on, with the list built so far.
RECURSIVE LoadFrom(_, _, _)
LoadFrom(file, i, quaternions) ==
    IF i > Len(file) THEN quaternions
    ELSE IF file[i] = BlankLine THEN LoadFrom(file, i + 1, quaternions)
    ELSE The({ IF p.raised \in { "IndexError", "ValueError" }
               THEN LoadFrom(file, i + 1, quaternions)
               ELSE LoadFrom(file, i + 1, Append(quaternions, p.sample))
               : p \in { ParseLine(file[i]) } })

load_quaternions_from_file(file) == LoadFrom(file, 1, << >>)

load_call(file) ==
    /\ obj = Loader
    /\ ret' = load_quaternions_from_file(file)
    /\ last' = Called("load_quaternions_from_file", file)
    /\ nops' = nops + 1
    /\ UNCHANGED << obj, trackerVars, prev_x, prev_y, pushed >>

\* The module-level function has no object: none of the fields exist.
LoadInit ==
    /\ obj = Loader
    /\ screen_x = 0
    /\ screen_y = 0
    /\ prev_quaternion = None
    /\ delta_buffer = << >>
    /\ sensitivity = 0
    /\ prev_x = 0
    /\ prev_y = 0
    /\ ret = None
    /\ last = NoCall
    /\ pushed = << >>
    /\ nops = 0
    /\ NoVisualizer

\* One load per behaviour: the function keeps no state between calls.
LoadNext ==
    /\ nops = 0 /\ UNCHANGED visualizerVars
    /\ \E file \in Files : load_call(file)

SpecLoad == LoadInit /\ [][LoadNext]_vars

(***************************************************************************)
(* MotionVisualizer (src/union_pygame.py): the main thread in run() and    *)
(* the demo threads it starts.  demo_threads[i] is where the i-th thread   *)
(* started is in _demo_loop: about to read self.demo_running, about to     *)
(* read self.running, in the loop body, or returned.  The visualizer owns  *)
(* a QuaternionTo2DMotion, the tracker of the variables above.             *)
(***************************************************************************)

\* Demo threads started in one run, and frames (calls on the tracker) in it.
MaxThreads == 2

MaxFrames == 2

\* _generate_demo_quaternion(t) at t = 0 s and t = 1 s: each thread measures
\* t from its own start, at moments the scheduler chooses.
DemoSamples == { << QScale, 0, 0, 0 >>, << 9885, 369, 771, 1247 >> }

LiveThreads == { i \in DOMAIN demo_threads : demo_threads[i] # "returned" }

\* while self.demo_running and self.running: the left operand is read first.
demo_test_demo_running(i) ==
    /\ demo_threads[i] = "test demo_running"
    /\ demo_threads' = [ demo_threads EXCEPT
                           ![i] = IF demo_running THEN "test running" ELSE "returned" ]
    /\ UNCHANGED << running, demo_running, current_quaternion, main_pc >>

demo_test_running(i) ==
    /\ demo_threads[i] = "test running"
    /\ demo_threads' = [ demo_threads EXCEPT
                           ![i] = IF running THEN "body" ELSE "returned" ]
    /\ UNCHANGED << running, demo_running, current_quaternion, main_pc >>

\* The loop body: self.current_quaternion = demo_quat, then time.sleep(1/60).
demo_body(i, demo_quat) ==
    /\ demo_threads[i] = "body"
    /\ current_quaternion' = demo_quat
    /\ demo_threads' = [ demo_threads EXCEPT ![i] = "test demo_running" ]
    /\ UNCHANGED << running, demo_running, main_pc >>

\* _handle_events on pygame.QUIT and on K_ESCAPE.
handle_quit ==
    /\ main_pc = "events"
    /\ running' = FALSE
    /\ UNCHANGED << demo_running, demo_threads, current_quaternion, main_pc >>

\* _handle_events on K_SPACE: the demo is toggled; switching it on starts a
\* new thread.
handle_space ==
    /\ main_pc = "events"
    /\ IF ~demo_running
       THEN /\ demo_running' = TRUE
            /\ demo_threads' = Append(demo_threads, "test demo_running")
       ELSE /\ demo_running' = FALSE
            /\ UNCHANGED demo_threads
    /\ UNCHANGED << running, current_quaternion, main_pc >>

\* The rest of one iteration of run() once the events are handled:
\* update_position(self.current_quaternion), the drawing, and the loop test.
frame ==
    /\ main_pc = "events"
    /\ update_position(current_quaternion)
    /\ main_pc' = IF running THEN "events" ELSE "cleanup"
    /\ UNCHANGED << running, demo_running, demo_threads, current_quaternion >>

\* After the loop: self.demo_running = False, then join(timeout=1).
cleanup ==
    /\ main_pc = "cleanup"
    /\ demo_running' = FALSE
    /\ main_pc' = "exited"
    /\ UNCHANGED << running, demo_threads, current_quaternion >>

\* run() has set self.running and entered its loop.
VisualizerInit ==
    /\ TrackerInit
    /\ ret = None
    /\ last = NoCall
    /\ pushed = << >>
    /\ nops = 0
    /\ running = TRUE
    /\ demo_running = FALSE
    /\ demo_threads = << >>
    /\ current_quaternion = << QScale, 0, 0, 0 >>
    /\ main_pc = "events"

trackerSide == << obj, screen_x, screen_y, prev_quaternion, delta_buffer,
                  sensitivity, prev_x, prev_y, ret, last, pushed, nops >>

VisualizerNext ==
    \/ /\ \E i \in DOMAIN demo_threads : demo_test_demo_running(i)
       /\ UNCHANGED trackerSide
    \/ /\ \E i \in DOMAIN demo_threads : demo_test_running(i)
       /\ UNCHANGED trackerSide
    \/ /\ \E i \in DOMAIN demo_threads, demo_quat \in DemoSamples : demo_body(i, demo_quat)
       /\ UNCHANGED trackerSide
    \/ /\ handle_quit
       /\ UNCHANGED trackerSide
    \/ /\ Len(demo_threads) < MaxThreads \/ demo_running
       /\ handle_space
       /\ UNCHANGED trackerSide
    \/ /\ main_pc = "events"
       /\ nops < MaxFrames
       /\ reset_position
       /\ UNCHANGED visualizerVars
    \/ /\ main_pc = "events"
       /\ nops < MaxFrames
       /\ \E s \in SensitivityInputs : set_sensitivity(s)
       /\ UNCHANGED visualizerVars
    \/ /\ nops < MaxFrames
       /\ frame
    \/ /\ cleanup
       /\ UNCHANGED trackerSide

SpecVisualizer == VisualizerInit /\ [][VisualizerNext]_vars

-----------------------------------------------------------------------------
\* Properties.  Tracker positions are in PosUnit per pixel and the tracker's
\* returned point in whole pixels; converter points are in PixScale per pixel.

\* What is no call that returns one screen point.
OtherOps == { "construct", "compare_methods", "quaternion_to_euler",
              "get_euler_angles" }

OnScreen(p, width, height, unit) ==
    /\ 0 <= p[1] /\ p[1] <= width * unit
    /\ 0 <= p[2] /\ p[2] <= height * unit

\* A step that is a call of update_position / of a converter operation that
\* returns a screen point.
UpdateStep == obj = Tracker /\ nops' = nops + 1 /\ last'.op = "update_position"

ConverterStep == obj # Tracker /\ nops' = nops + 1 /\ last'.op \notin OtherOps

AfterUpdate == obj = Tracker /\ last.op = "update_position"

AfterConverterCall == obj # Tracker /\ last.op \notin OtherOps

TrackerCentre == << CenterOf(ScreenWidth), CenterOf(ScreenHeight) >>

AllZero(buf) == \A i \in 1..Len(buf) : buf[i] = << 0, 0 >>

LastN(seq, n) == SubSeq(seq, Max(1, Len(seq) - n + 1), Len(seq))

\* C1: every point an operation returns lies in [0, width] x [0, height],
\* whatever calls came before it (tracker: update_position after any
\* update_position / reset_position / set_sensitivity; converters: every
\* strategy, apply_post_processing and quaternion_to_screen_coords, with
\* smoothing on or off).
C1_ReturnedPointOnScreen ==
    /\ (AfterUpdate => OnScreen(ret, ScreenWidth, ScreenHeight, 1))
    /\ (AfterConverterCall =>
          OnScreen(ret, ConfigOf(obj).width, ConfigOf(obj).height, PixScale))
    /\ (obj # Tracker /\ last.op = "compare_methods" =>
          \A k \in DOMAIN ret :
             OnScreen(ret[k], ConfigOf(obj).width, ConfigOf(obj).height, PixScale))

\* An update, after the sensitivity was changed, whose averaged displacement
\* carried the position past the right edge before the clamp.
C1_Witness ==
    /\ AfterUpdate
    /\ sensitivity # InitialSensitivity
    /\ last.pre_x > ScreenWidth * PosUnit
    /\ ret[1] <= ScreenWidth

\* The same sample passed again to update_position, right after the call
\* that passed it.
SameSampleAgain ==
    /\ UpdateStep
    /\ last.op = "update_position"
    /\ last'.arg = last.arg

\* C2 as stated: passing the same quaternion to update_position twice in a
\* row leaves the position unchanged by the second call, in every reachable
\* state.
C2_SameSampleNoDisplacement ==
    [][SameSampleAgain => screen_x' = screen_x /\ screen_y' = screen_y]_vars

\* C2 as the code has it: the second call buffers the zero delta (0, 0); the
\* position moves by the mean of the buffer, so it is unchanged whenever
\* every delta left in the buffer is zero.
C2_SameSampleZeroDelta ==
    [][SameSampleAgain =>
         /\ delta_buffer' # << >>
         /\ delta_buffer'[Len(delta_buffer')] = << 0, 0 >>
         /\ (AllZero(delta_buffer') =>
                screen_x' = screen_x /\ screen_y' = screen_y)]_vars

\* A repeated non-identity sample on a tracker that has moved, the buffer
\* full of zero deltas.
C2_Witness ==
    /\ AfterUpdate
    /\ last.prev_op = "update_position"
    /\ last.prev_arg = last.arg
    /\ last.arg # << 0, 0, 0, 0 >>
    /\ Len(delta_buffer) = SmoothingWindow
    /\ AllZero(delta_buffer)
    /\ << screen_x, screen_y >> # TrackerCentre

\* C3: reset_position leaves the position at the screen centre
\* (width/2, height/2), no previous orientation and an empty delta buffer; the
\* update_position that follows returns the centre, records the (normalized)
\* reference orientation and buffers nothing.
C3_ResetRestoresCentre ==
    [][/\ (obj = Tracker /\ nops' = nops + 1 /\ last'.op = "reset_position" =>
             /\ 2 * screen_x' = ScreenWidth * PosUnit
             /\ 2 * screen_y' = ScreenHeight * PosUnit
             /\ prev_quaternion' = None
             /\ delta_buffer' = << >>)
       /\ (UpdateStep /\ last.op = "reset_position" =>
             /\ 2 * ret'[1] = ScreenWidth
             /\ 2 * ret'[2] = ScreenHeight
             /\ prev_quaternion' = _normalize_quaternion(last'.arg)
             /\ prev_quaternion' # None
             /\ delta_buffer' = << >>
             /\ screen_x' = screen_x /\ screen_y' = screen_y)]_vars

\* The update after a reset of a tracker that had moved, had buffered deltas
\* and had its sensitivity changed.
C3_Witness ==
    /\ AfterUpdate
    /\ last.prev_op = "reset_position"
    /\ last.dirty
    /\ last.first
    /\ sensitivity # InitialSensitivity
    /\ delta_buffer = << >>

\* An update with a previous orientation whose delta pitch and delta yaw are
\* both below the deadzone in magnitude.
SubDeadzoneStep ==
    /\ UpdateStep
    /\ ~last'.first
    /\ Abs(last'.dpitch) < Deadzone
    /\ Abs(last'.dyaw) < Deadzone

\* C4 as stated: an update whose delta pitch and delta yaw are both below the
\* deadzone leaves the position unchanged.
C4_SubDeadzoneNoMovement ==
    [][SubDeadzoneStep => screen_x' = screen_x /\ screen_y' = screen_y]_vars

\* C4 as the code has it: such an update buffers the delta (0, 0); the
\* position moves by the mean of the buffer, so it is unchanged whenever
\* every delta left in the buffer is zero.
C4_SubDeadzoneZeroDelta ==
    [][SubDeadzoneStep =>
         /\ delta_buffer' # << >>
         /\ delta_buffer'[Len(delta_buffer')] = << 0, 0 >>
         /\ (AllZero(delta_buffer') =>
                screen_x' = screen_x /\ screen_y' = screen_y)]_vars

\* A nonzero yaw below the deadzone, suppressed, on a buffer of zero deltas.
C4_Witness ==
    /\ AfterUpdate
    /\ ~last.first
    /\ last.dyaw # 0
    /\ Abs(last.dyaw) < Deadzone
    /\ Abs(last.dpitch) < Deadzone
    /\ Len(delta_buffer) = SmoothingWindow
    /\ AllZero(delta_buffer)

\* Euclidean distance of (rx, ry) from the screen centre below dead_zone.
WithinDeadZone(cfg, rx, ry) ==
    LET dx == rx - CenterPix(cfg.width)
        dy == ry - CenterPix(cfg.height)
    IN  dx * dx + dy * dy < (cfg.dead_zone * PixScale) * (cfg.dead_zone * PixScale)

ConverterCentre == << CenterPix(ConfigOf(obj).width), CenterPix(ConfigOf(obj).height) >>

\* C5 as stated: when the raw point is closer to the centre than dead_zone,
\* the returned point is the centre, smoothing on or off; a point at distance
\* dead_zone or more enters the filter as it is.
C5_DeadZoneReturnsCentre ==
    AfterConverterCall =>
        IF WithinDeadZone(ConfigOf(obj), last.raw_x, last.raw_y)
        THEN ret = ConverterCentre
        ELSE ~last.smooth => << last.pre_x, last.pre_y >> = << last.raw_x, last.raw_y >>

\* C5 as the code has it: a raw point closer to the centre than dead_zone is
\* replaced by the centre before the smoothing; without smoothing the centre
\* is returned, with smoothing the filter's output for the centre,
\* alpha * centre + (1 - alpha) * previous; a point at distance dead_zone or
\* more is not snapped.
C5_DeadZoneBeforeSmoothing ==
    [][ConverterStep =>
         LET cfg == ConfigOf(obj)
             inside == WithinDeadZone(cfg, last'.raw_x, last'.raw_y)
             tx == IF inside THEN CenterPix(cfg.width) ELSE last'.raw_x
             ty == IF inside THEN CenterPix(cfg.height) ELSE last'.raw_y
         IN  /\ (inside /\ ~last'.smooth => ret' = ConverterCentre)
             /\ (last'.smooth =>
                    /\ last'.pre_x = Smooth(cfg, tx, prev_x)
                    /\ last'.pre_y = Smooth(cfg, ty, prev_y))
             /\ (~last'.smooth => last'.pre_x = tx /\ last'.pre_y = ty)
             /\ ret' = << ClampPix(last'.pre_x, cfg.width),
                          ClampPix(last'.pre_y, cfg.height) >>]_vars

\* A smoothed call whose raw point is off the centre but inside the dead zone
\* and whose result is not the centre.
C5_Witness ==
    /\ AfterConverterCall
    /\ last.smooth
    /\ WithinDeadZone(ConfigOf(obj), last.raw_x, last.raw_y)
    /\ << last.raw_x, last.raw_y >> # ConverterCentre
    /\ ret # ConverterCentre

\* A coordinate that was below 0 before the clamp is returned as 0, one that
\* was above hi_pre as hi_ret.
ClampedToEdge(pre, r, hi_pre, hi_ret) ==
    /\ (pre < 0 => r = 0)
    /\ (pre > hi_pre => r = hi_ret)

ConverterClampedToEdge ==
    AfterConverterCall =>
        /\ ClampedToEdge(last.pre_x, ret[1], ConfigOf(obj).width * PixScale,
                         ConfigOf(obj).width * PixScale)
        /\ ClampedToEdge(last.pre_y, ret[2], ConfigOf(obj).height * PixScale,
                         ConfigOf(obj).height * PixScale)

\* C6 as stated: a coordinate that would leave the screen is returned as
\* exactly 0 or width (x), 0 or height (y), each axis by itself, by
\* apply_post_processing and by the tracker's update_position alike.
C6_ClampedToZeroOrDimension ==
    /\ ConverterClampedToEdge
    /\ (AfterUpdate =>
          /\ ClampedToEdge(last.pre_x, ret[1], ScreenWidth * PosUnit, ScreenWidth)
          /\ ClampedToEdge(last.pre_y, ret[2], ScreenHeight * PosUnit, ScreenHeight))

\* C6 as the code has it: apply_post_processing returns exactly 0 or width,
\* 0 or height; the tracker's update_position clamps to width - 1 and
\* height - 1 and returns exactly 0 or width - 1, 0 or height - 1.
C6_ClampedToEdgeOfRange ==
    /\ ConverterClampedToEdge
    /\ (AfterUpdate =>
          /\ ClampedToEdge(last.pre_x, ret[1], (ScreenWidth - 1) * PosUnit,
                           ScreenWidth - 1)
          /\ ClampedToEdge(last.pre_y, ret[2], (ScreenHeight - 1) * PosUnit,
                           ScreenHeight - 1))

\* A tracker update that ran past the right edge and was returned on the last
\* pixel column, the other axis untouched.
C6_Witness ==
    /\ AfterUpdate
    /\ last.pre_x > ScreenWidth * PosUnit
    /\ ret[1] = ScreenWidth - 1
    /\ ret[2] = IntPx(last.pre_y)

\* C7: the first update_position after construction or reset stores the
\* normalized sample as previous orientation, returns the (integer) current
\* position and leaves position and delta buffer as they were.
C7_FirstSampleRecordsReference ==
    [][UpdateStep /\ prev_quaternion = None =>
         /\ prev_quaternion' = _normalize_quaternion(last'.arg)
         /\ ret' = << IntPx(screen_x), IntPx(screen_y) >>
         /\ screen_x' = screen_x /\ screen_y' = screen_y
         /\ delta_buffer' = delta_buffer
         /\ sensitivity' = sensitivity]_vars

\* A first sample that was not of unit norm: the stored reference is its
\* normalization.
C7_Witness ==
    /\ AfterUpdate
    /\ last.first
    /\ last.arg = << QScale, 0, 0, QScale >>
    /\ prev_quaternion # last.arg
    /\ prev_quaternion = _normalize_quaternion(last.arg)
    /\ delta_buffer = << >>
    /\ ret = << ScreenWidth \div 2, ScreenHeight \div 2 >>

\* C8: one quaternion fed again and again (up to MaxRepeat times) to a
\* tracker just constructed or reset: every call returns the screen centre
\* and the position never leaves it.
C8_RepeatedSampleStaysAtCentre ==
    AfterUpdate /\ last.run >= 1 =>
        /\ 2 * ret[1] = ScreenWidth
        /\ 2 * ret[2] = ScreenHeight
        /\ << screen_x, screen_y >> = TrackerCentre

\* The MaxRepeat-th call of a run with a non-identity sample.
C8_Witness ==
    /\ AfterUpdate
    /\ last.run = MaxRepeat
    /\ last.arg = << QScale, 0, 0, QScale >>
    /\ Len(delta_buffer) = SmoothingWindow
    /\ 2 * ret[1] = ScreenWidth

\* C9: after k updates with a previous orientation since construction or
\* reset the buffer holds the min(k, N) most recent delta pairs, in order,
\* and the displacement applied by an update is the arithmetic mean of the
\* pairs in the buffer after its own pair was appended.
C9_BufferHoldsRecentDeltas ==
    [][UpdateStep /\ ~last'.first =>
         LET S == LastN(pushed', SmoothingWindow)
         IN  /\ Len(pushed') = Len(pushed) + 1
             /\ delta_buffer' = S
             /\ Len(S) = Min(Len(pushed'), SmoothingWindow)
             /\ (last'.pre_x - screen_x) * Len(S) = SumOf(S, 1) * MeanUnit
             /\ (last'.pre_y - screen_y) * Len(S) = SumOf(S, 2) * MeanUnit]_vars

\* More pairs pushed than the buffer holds, the evicted one nonzero, the
\* buffered ones different from each other.
C9_Witness ==
    /\ AfterUpdate
    /\ Len(pushed) > SmoothingWindow
    /\ pushed[1] # << 0, 0 >>
    /\ Len(delta_buffer) = SmoothingWindow
    /\ delta_buffer[1] # delta_buffer[Len(delta_buffer)]
    /\ delta_buffer[1] # pushed[1]

\* C10: set_sensitivity changes the sensitivity field and nothing else:
\* position, previous orientation and buffered deltas stay; a later update
\* computes its own delta with the sensitivity of the moment and leaves the
\* deltas buffered before it as they are.
C10_SetSensitivityNotRetroactive ==
    [][/\ (obj = Tracker /\ nops' = nops + 1 /\ last'.op = "set_sensitivity" =>
             /\ sensitivity' = last'.arg[1]
             /\ screen_x' = screen_x /\ screen_y' = screen_y
             /\ prev_quaternion' = prev_quaternion
             /\ delta_buffer' = delta_buffer)
       /\ (UpdateStep /\ ~last'.first =>
             LET n == Len(delta_buffer')
             IN  /\ n >= 1
                 /\ delta_buffer'[n] =
                      << ApplyDeadzone(last'.dyaw) * sensitivity,
                         (-ApplyDeadzone(last'.dpitch)) * sensitivity >>
                 /\ SubSeq(delta_buffer', 1, n - 1) = LastN(delta_buffer, n - 1)
                 /\ sensitivity' = sensitivity)]_vars

\* An update right after set_sensitivity: the older buffered delta was
\* computed with another sensitivity than the new one.
C10_Witness ==
    /\ AfterUpdate
    /\ last.prev_op = "set_sensitivity"
    /\ ~last.first
    /\ Len(delta_buffer) >= 2
    /\ delta_buffer[1] # << 0, 0 >>
    /\ delta_buffer[Len(delta_buffer)] # << 0, 0 >>
    /\ sensitivity # InitialSensitivity

\* A step that is a call of reset_position.
ResetStep == obj = Tracker /\ nops' = nops + 1 /\ last'.op = "reset_position"

\* C11: reset_position is idempotent and touches nothing but position,
\* previous orientation and delta buffer: a second reset_position right after
\* the first leaves every field as the first left it, and no reset_position
\* changes the sensitivity (deadzone, screen size and buffer capacity are set
\* in __init__ only).
C11_ResetIdempotent ==
    [][ResetStep =>
         /\ sensitivity' = sensitivity
         /\ Len(delta_buffer') <= SmoothingWindow
         /\ (last.op = "reset_position" =>
               /\ screen_x' = screen_x /\ screen_y' = screen_y
               /\ prev_quaternion' = prev_quaternion
               /\ delta_buffer' = delta_buffer
               /\ ret' = ret)]_vars

\* Two calls of reset_position in a row on a tracker that had moved, had
\* buffered deltas and had its sensitivity changed.
C11_Witness ==
    /\ obj = Tracker
    /\ last.op = "reset_position"
    /\ last.prev_op = "reset_position"
    /\ last.dirty
    /\ sensitivity # InitialSensitivity
    /\ << screen_x, screen_y >> = TrackerCentre
    /\ prev_quaternion = None
    /\ delta_buffer = << >>

\* C12: a zero-norm sample never fails: _normalize_quaternion((0,0,0,0)) is
\* exactly the identity (1,0,0,0); update_position with an all-zero sample
\* completes and handles it as the identity orientation (the identity becomes
\* the reference, the delta is the one of the identity against the previous
\* reference), and get_euler_angles returns the identity's angles (0, 0, 0).
C12_ZeroNormIsIdentity ==
    [][/\ (UpdateStep /\ last'.arg = << 0, 0, 0, 0 >> =>
             /\ prev_quaternion' = << QScale, 0, 0, 0 >>
             /\ ret' # None
             /\ (prev_quaternion # None =>
                   /\ last'.dpitch = EulerOfDelta(<< QScale, 0, 0, 0 >>,
                                                  prev_quaternion)[2]
                   /\ last'.dyaw = EulerOfDelta(<< QScale, 0, 0, 0 >>,
                                                prev_quaternion)[3]))
       /\ (obj = Tracker /\ nops' = nops + 1 /\ last'.op = "get_euler_angles"
           /\ last'.arg = << 0, 0, 0, 0 >> =>
             /\ ret' = << 0, 0, 0 >>
             /\ UNCHANGED trackerVars)]_vars

\* An all-zero sample after a 90-degree yaw: the tracker turns back to the
\* identity, the yaw delta is not zero.
C12_Witness ==
    /\ AfterUpdate
    /\ last.arg = << 0, 0, 0, 0 >>
    /\ ~last.first
    /\ last.dyaw < -Deadzone
    /\ prev_quaternion = << QScale, 0, 0, 0 >>
    /\ ret[1] < ScreenWidth \div 2

\* C13: compare_methods returns a mapping with exactly the keys Euler,
\* Direct, Rotation Matrix, Spherical and Hybrid, each the point its strategy
\* returns with smoothing disabled; it leaves prev_x / prev_y as they were and
\* its result is the one a converter that was never called returns.
C13_CompareMethodsPure ==
    [][obj = Improved /\ nops' = nops + 1 /\ last'.op = "compare_methods" =>
         /\ DOMAIN ret' = { "Euler", "Direct", "Rotation Matrix", "Spherical",
                            "Hybrid" }
         /\ prev_x' = prev_x
         /\ prev_y' = prev_y
         /\ \A i \in 1..Len(Methods) :
              \E r \in { StrategyCall(Methods[i][2], CenterPix(ImprovedConfig.width),
                                      CenterPix(ImprovedConfig.height),
                                      last'.arg, FALSE) } :
                ret'[Methods[i][1]] = << r.x, r.y >>]_vars

\* compare_methods on a converter whose smoothing state an earlier smoothed
\* call had moved off the centre, the strategies disagreeing.
C13_Witness ==
    /\ obj = Improved
    /\ last.op = "compare_methods"
    /\ last.prev_op \in Strategies
    /\ prev_x # CenterPix(ImprovedConfig.width)
    /\ ret["Euler"] # ret["Direct"]
    /\ ret["Euler"] # ret["Hybrid"]

\* C14: with alpha = 1 the exponential filter is disabled: from any smoothing
\* state, a call with use_smoothing=True returns the point the same call
\* returns with use_smoothing=False.
C14_AlphaOneDisablesFilter ==
    [][ConverterStep /\ last'.smooth =>
         \E r \in { PostProcess(AlphaOneConfig(obj), prev_x, prev_y,
                                last'.raw_x, last'.raw_y, FALSE) } :
            ret' = << r.x, r.y >>]_vars

\* A smoothed call after another call, its raw point outside the dead zone and
\* other than the raw point of the call before: the filter state it started
\* from was another point.
C14_Witness ==
    /\ AfterConverterCall
    /\ last.smooth
    /\ last.prev_op # "construct"
    /\ last.prev_arg # last.arg
    /\ ~WithinDeadZone(ConfigOf(obj), last.raw_x, last.raw_y)
    /\ << last.pre_x, last.pre_y >> = << last.raw_x, last.raw_y >>
    /\ ret # ConverterCentre

\* A hybrid_method call with smoothing disabled.
HybridStep ==
    /\ obj = Improved /\ nops' = nops + 1
    /\ last'.op = "hybrid_method" /\ ~last'.smooth

\* 0.8 * E + 0.2 * S on one axis, E and S the points euler_method and
\* spherical_method return for q with smoothing disabled.
WeightedPoint(q) ==
    The({ << RoundDiv(8 * es[1].x + 2 * es[2].x, 10),
             RoundDiv(8 * es[1].y + 2 * es[2].y, 10) >>
          : es \in { << euler_method(prev_x, prev_y, q, FALSE),
                        spherical_method(prev_x, prev_y, q, FALSE) >> } })

\* C15 as stated: hybrid_method with smoothing disabled returns the point
\* 0.8 * E + 0.2 * S on each axis.
C15_HybridIsWeightedPoint ==
    [][HybridStep => ret' = WeightedPoint(last'.arg)]_vars

\* C15 as the code has it: the point 0.8 * E + 0.2 * S goes through the
\* post-processing once more: hybrid_method with smoothing disabled returns
\* it when it is at distance dead_zone or more from the screen centre, and
\* the screen centre when it is closer.
C15_HybridIsPostProcessedWeightedPoint ==
    [][HybridStep =>
         \E b \in { WeightedPoint(last'.arg) } :
            /\ << last'.raw_x, last'.raw_y >> = b
            /\ ret' = IF WithinDeadZone(ImprovedConfig, b[1], b[2])
                      THEN ConverterCentre ELSE b]_vars

\* A hybrid call, smoothing disabled, whose weighted point is off the centre
\* but inside the dead zone: the centre is returned.
C15_Witness ==
    /\ obj = Improved
    /\ last.op = "hybrid_method"
    /\ ~last.smooth
    /\ WithinDeadZone(ImprovedConfig, last.raw_x, last.raw_y)
    /\ << last.raw_x, last.raw_y >> # ConverterCentre
    /\ << last.raw_x, last.raw_y >> = WeightedPoint(last.arg)
    /\ ret = ConverterCentre

\* q * conjugate(q), and the squared norm of q in QScale units.
SelfProduct(q) == _quaternion_multiply(q, _quaternion_conjugate(q))

SquaredNorm(q) ==
    RoundDiv(q[1] * q[1] + q[2] * q[2] + q[3] * q[3] + q[4] * q[4], QScale)

C17_NoTiltMapsToCentre ==
    /\ AfterConverterCall
    /\ last.op \in { "euler_method", "quaternion_to_screen_coords" }
    /\ ~last.smooth
    /\ last.arg[2] = 0 /\ last.arg[3] = 0
    => /\ ret = ConverterCentre
       /\ (obj \in { EulerPy, ClearVizual } =>
             ret = << 400 * PixScale, 300 * PixScale >>)

\* A 17 degree yaw on the 800x600 converter of src/Euler.py, smoothing
\* disabled, after a smoothed call that had moved the filter state.
C17_Witness ==
    /\ obj = EulerPy
    /\ last.op = "quaternion_to_screen_coords"
    /\ ~last.smooth
    /\ last.arg = << 9888, 0, 0, 1494 >>
    /\ prev_x # CenterPix(EulerPyConfig.width)
    /\ ret = << 400 * PixScale, 300 * PixScale >>

\* The asin argument s = 2(wy - zx) of a quaternion, in One units.
SinPitch(q) == 2 * (q[1] * q[3] - q[4] * q[2])

\* What the claim expects for the pitch: a quarter turn with the sign of s
\* when |s| >= 1, asin(s) otherwise.
ExpectedPitch(s) ==
    IF s >= One THEN HalfPi ELSE IF s <= -One THEN -HalfPi ELSE Asin(s, One)

\* C18: when the asin argument s = 2(wy - zx) has |s| >= 1, the Euler
\* decompositions and the spherical strategy return a pitch / elevation of
\* +pi/2 for positive s and -pi/2 for negative s; for |s| < 1 they return
\* asin(s).  The spherical elevation is observed through the raw point, where
\* it is clamped to the maximum tilt.
C18_PitchSingularityClamped ==
    /\ (obj # Tracker /\ last.op = "quaternion_to_euler" =>
          ret[2] = ExpectedPitch(SinPitch(last.arg)))
    /\ (obj = Tracker /\ last.op = "get_euler_angles" =>
          ret[2] = ExpectedPitch(SinPitch(_normalize_quaternion(last.arg))))
    /\ (obj = Improved /\ last.op = "spherical_method" =>
          last.raw_y = CenterPix(ImprovedConfig.height)
                         - RoundDiv(ClampTilt(ExpectedPitch(SinPitch(last.arg)))
                                      * SensitivityOf(ImprovedConfig.height), AngScale))

\* quaternion_to_euler returned -pi/2 for s = -2.
C18_Witness ==
    /\ obj # Tracker
    /\ last.op = "quaternion_to_euler"
    /\ SinPitch(last.arg) <= -One
    /\ ret[2] = -HalfPi

\* The spherical strategy met s <= -1: the raw point is at the maximum tilt
\* below the centre.
C18_WitnessSpherical ==
    /\ obj = Improved
    /\ last.op = "spherical_method"
    /\ SinPitch(last.arg) <= -One
    /\ last.raw_y = CenterPix(ImprovedConfig.height)
                      + RoundDiv(MaxTiltRadians * SensitivityOf(ImprovedConfig.height), AngScale)

\* get_euler_angles met s >= 1: the rounding of the normalization put the
\* asin argument of a quarter-turn pitch just above 1.
C18_WitnessTracker ==
    /\ obj = Tracker
    /\ last.op = "get_euler_angles"
    /\ SinPitch(_normalize_quaternion(last.arg)) >= One
    /\ ret[2] = HalfPi

\* A line of exactly four label: value pairs whose values are numerals.
WellFormed(line) ==
    /\ Len(line) = 4
    /\ \A i \in 1 .. 4 : Len(line[i]) = 2 /\ line[i][2] \in DOMAIN FloatOf

RECURSIVE SamplesOfWellFormed(_)
SamplesOfWellFormed(file) ==
    IF file = << >> THEN << >>
    ELSE IF WellFormed(Head(file))
         THEN << << FloatOf[Head(file)[1][2]], FloatOf[Head(file)[2][2]],
                    FloatOf[Head(file)[3][2]], FloatOf[Head(file)[4][2]] >> >>
                \o SamplesOfWellFormed(Tail(file))
    ELSE SamplesOfWellFormed(Tail(file))

\* C19: loading a log skips every non-blank line that does not parse into
\* exactly four label: value pairs and returns the samples of the well-formed
\* lines before and after it, in file order.
C19_OnlyWellFormedLinesLoaded ==
    obj = Loader /\ last.op = "load_quaternions_from_file" =>
        ret = SamplesOfWellFormed(last.arg)

\* A log with a well-formed line, a line of three pairs and another
\* well-formed line: the two samples are returned in file order.
C19_Witness ==
    /\ obj = Loader
    /\ last.op = "load_quaternions_from_file"
    /\ Len(last.arg) = 3
    /\ WellFormed(last.arg[1]) /\ Len(last.arg[2]) = 3 /\ WellFormed(last.arg[3])
    /\ last.arg[1] # last.arg[3]
    /\ ret = SamplesOfWellFormed(last.arg)
    /\ Len(ret) = 2

\* A line of five pairs was loaded as a sample.
C19_FivePairsLoaded ==
    /\ obj = Loader
    /\ last.op = "load_quaternions_from_file"
    /\ Len(last.arg) = 1 /\ Len(last.arg[1]) = 5
    /\ ret = << << QScale \div 2, -(QScale \div 2), QScale \div 2, QScale \div 2 >> >>

\* C20: the reference orientation advances on every sample, whether or not
\* the deadzone zeroed the delta; so a stream from a fresh or reset tracker in
\* which every consecutive-sample delta is below the deadzone (every stream of
\* SpecDrift) leaves the position at the screen centre, however far the
\* orientation has turned in total.
C20_SubDeadzoneDriftStaysAtCentre ==
    /\ (AfterUpdate => prev_quaternion = _normalize_quaternion(last.arg))
    /\ (obj = Tracker => << screen_x, screen_y >> = TrackerCentre)
    /\ (AfterUpdate =>
          ret = << IntPx(CenterOf(ScreenWidth)), IntPx(CenterOf(ScreenHeight)) >>)

\* The orientation has turned by more than ten deadzones since the stream
\* began, each step a nonzero yaw that the deadzone zeroed, and the position
\* is still the centre.
C20_Witness ==
    /\ AfterUpdate
    /\ last.arg = DriftSample(MaxDrift)
    /\ last.dyaw # 0
    /\ Abs(last.dyaw) < Deadzone
    /\ Len(pushed) >= MaxDrift
    /\ AllZero(pushed)
    /\ YawOf(prev_quaternion[1], prev_quaternion[2], prev_quaternion[3],
             prev_quaternion[4]) >= 10 * Deadzone
    /\ << screen_x, screen_y >> = TrackerCentre

\* The point a converter call of the given name returns for argument a when
\* the smoothing state is p.
CallWith(name, a, p, use_smoothing) ==
    The({ << r.x, r.y >>
          : r \in { CASE name = "apply_post_processing" ->
                           apply_post_processing(p[1], p[2],
                               CenterPix(ImprovedConfig.width) + a[1],
                               CenterPix(ImprovedConfig.height) + a[2], use_smoothing)
                      [] name = "quaternion_to_screen_coords" ->
                           quaternion_to_screen_coords(ConfigOf(obj), p[1], p[2], a,
                                                       use_smoothing)
                      [] OTHER -> StrategyCall(name, p[1], p[2], a, use_smoothing) } })

\* Smoothing states to compare a call against: the origin, the far corner
\* of the largest screen and a point off every screen.
PrevProbes ==
    { << 0, 0 >>, << 800 * PixScale, 600 * PixScale >>,
      << -70 * PixScale, 900 * PixScale >> }

\* The weighted point of hybrid_method after the dead zone.
DeadZonedWeightedPoint(q) ==
    The({ IF WithinDeadZone(ImprovedConfig, b[1], b[2]) THEN ConverterCentre ELSE b
          : b \in { WeightedPoint(q) } })

\* C21: a converter call with use_smoothing = False leaves prev_x and prev_y
\* unchanged and returns what it would return for any other smoothing state;
\* hybrid_method with smoothing enabled stores one filter step from the old
\* state towards the blended point: its inner Euler and spherical evaluations
\* leave the state alone.
C21_UnsmoothedCallLeavesFilterState ==
    [][/\ (ConverterStep /\ ~last'.smooth =>
             /\ prev_x' = prev_x /\ prev_y' = prev_y
             /\ \A p \in PrevProbes :
                  ret' = CallWith(last'.op, last'.arg, p, FALSE))
       /\ (ConverterStep /\ last'.op = "hybrid_method" /\ last'.smooth =>
             \E b \in { DeadZonedWeightedPoint(last'.arg) } :
                /\ prev_x' = Smooth(ImprovedConfig, b[1], prev_x)
                /\ prev_y' = Smooth(ImprovedConfig, b[2], prev_y))]_vars

\* An unsmoothed call on a converter whose smoothing state an earlier call
\* had moved off the centre, returning a point that is not that state.
C21_Witness ==
    /\ AfterConverterCall
    /\ ~last.smooth
    /\ last.prev_op # "construct"
    /\ << prev_x, prev_y >> # ConverterCentre
    /\ ret # << prev_x, prev_y >>
    /\ ret # ConverterCentre

\* A smoothed hybrid call whose blended point is off the centre, on a state
\* an earlier call had moved: the state is strictly between the two.
C21_WitnessHybrid ==
    /\ obj = Improved
    /\ last.op = "hybrid_method"
    /\ last.smooth
    /\ last.prev_op # "construct"
    /\ << last.raw_x, last.raw_y >> # ConverterCentre
    /\ << prev_x, prev_y >> # << last.raw_x, last.raw_y >>
    /\ << prev_x, prev_y >> # ConverterCentre

\* A strategy call of ImprovedQuaternionConverter with smoothing enabled.
AfterSmoothedStrategy == obj = Improved /\ last.op \in Strategies /\ last.smooth

SmoothedStrategyStep ==
    /\ obj = Improved /\ nops' = nops + 1
    /\ last'.op \in Strategies /\ last'.smooth

\* C22 as stated: after strategy calls with smoothing enabled the stored
\* smoothing state lies on the screen, 0 <= prev_x <= screen_width and
\* 0 <= prev_y <= screen_height.
C22_FilterStateOnScreen ==
    AfterSmoothedStrategy =>
        OnScreen(<< prev_x, prev_y >>, ImprovedConfig.width, ImprovedConfig.height,
                 PixScale)

\* C22 as the code has it: the stored smoothing state is the filtered point
\* before the clamp, alpha * v + (1 - alpha) * prev with v the raw point after
\* the dead zone, and the returned point is that state clamped to the screen.
C22_ReturnedPointIsClampedFilterState ==
    [][SmoothedStrategyStep =>
         \E v \in { IF WithinDeadZone(ImprovedConfig, last'.raw_x, last'.raw_y)
                    THEN ConverterCentre
                    ELSE << last'.raw_x, last'.raw_y >> } :
            /\ prev_x' = RoundDiv(ImprovedConfig.alpha * v[1]
                                    + (10 - ImprovedConfig.alpha) * prev_x, 10)
            /\ prev_y' = RoundDiv(ImprovedConfig.alpha * v[2]
                                    + (10 - ImprovedConfig.alpha) * prev_y, 10)
            /\ ret' = << Max(0, Min(ImprovedConfig.width * PixScale, prev_x')),
                         Max(0, Min(ImprovedConfig.height * PixScale, prev_y')) >>]_vars

\* A smoothed strategy call on a unit quaternion left the smoothing state to
\* the left of the screen; the point returned is on the left edge.
C22_Witness ==
    /\ AfterSmoothedStrategy
    /\ last.arg = << 7071, -7071, 0, 0 >>
    /\ prev_x < 0
    /\ ret[1] = 0

\* C23: under every interleaving of the SPACE key events the main loop
\* handles with the demo threads' own loops, at most one demo thread is
\* executing _demo_loop at any time.
C23_AtMostOneDemoThread == Cardinality(LiveThreads) <= 1

\* Two demo threads are in the loop body at once, each about to assign
\* self.current_quaternion.
C23_TwoThreadsWriting ==
    /\ Len(demo_threads) >= 2
    /\ demo_threads[1] = "body"
    /\ demo_threads[2] = "body"
    /\ demo_running /\ running

=============================================================================
